---- MODULE Spec2Model ----
(***************************************************************************)
(* A state-machine model of polara/evaluation/pipelines.py: the random     *)
(* grid sampler (random_grid), the config applier (set_config) and the     *)
(* three search loops (find_optimal_svd_rank, find_optimal_tucker_ranks,   *)
(* find_optimal_config) driving an externally supplied model object.       *)
(***************************************************************************)
EXTENDS Integers, Sequences, FiniteSets, TLC

\* ------------------------------------------------------------------ bounds
\* largest candidate value of a sampled parameter
MaxVal == 2
\* longest candidate sequence of the first sampled parameter
MaxLen == 2
\* largest sampling budget n passed to random_grid
MaxBudget == 3

\* ----------------------------------------------------------------- helpers
Min(a, b) == IF a < b THEN a ELSE b
Max(a, b) == IF a > b THEN a ELSE b

RECURSIVE SeqProduct(_)
\* reduce(mul_op, s)
SeqProduct(s) == IF s = <<>> THEN 1 ELSE Head(s) * SeqProduct(Tail(s))

Range(s) == {s[i] : i \in DOMAIN s}

VARIABLES
  pc,            \* position of the running call
  exc,           \* exception propagating to the caller ("none" when none)
  ret,           \* value returned to the caller (<<>> until the call returns)
  \* ---- random_grid
  params,        \* argument: ordered mapping, a sequence of [name, vals]
  budget,        \* argument n
  skip_config,   \* argument: the exclusion predicate (a name, see SkipConfig)
  grid_cache,    \* argument: previously sampled tuples (None is the empty set)
  n,             \* local n after line 32
  grid,          \* local set of sampled tuples
  skipped,       \* local set of excluded tuples
  level_choice,  \* local: the tuple being drawn
  interrupted    \* a KeyboardInterrupt was delivered inside the loop

VARIABLES
  fn,              \* the function being called
  \* ---- the model object borrowed by the optimizers
  model,           \* its attributes: rank, verbose, ready, factors, ...
  \* ---- arguments of the optimizers
  ranks,           \* find_optimal_svd_rank: candidate ranks
  tucker_ranks,    \* find_optimal_tucker_ranks: three candidate sequences
  param_grid,      \* find_optimal_config: the candidate tuples, in order
  names,           \* find_optimal_config: param_names
  config,          \* config / init_config
  verbose,
  protect_factors,
  same_space,
  force_build,
  reset_config,
  \* ---- locals of the optimizers
  model_verbose,   \* verbosity saved at entry
  svd_rank,        \* svd_rank / tucker_rank: the rank fixed at setup
  svd_factors,     \* svd_factors / factors: the snapshot of the factors
  queue,           \* candidates the loop has not reached yet
  res,             \* res / res_score / grid_results, in insertion order
  \* ---- history, read by the properties only
  pre,             \* the model as it was immediately before the call
  loop_factors,    \* the factors as they were when the snapshot was taken
  trial_exc,       \* the failure raised inside a trial ("none" when none)
  disturbed,       \* some evaluation replaced an entry of the factors
  evaluated,       \* the candidates handed to the evaluator, in order
  assigned,        \* the ranks the call assigned to the model
  builds,          \* number of model.build() calls
  resets,          \* number of times reset_config was applied
  \* ---- the evaluator and the calls made before this one
  deterministic,   \* the evaluator is a function of the model's rank and factors
  seen,            \* that function, as far as the evaluations have shown it
  first            \* what the previous call on this model returned (<<>> when none)

gridVars == <<params, budget, skip_config, grid_cache, n, grid, skipped,
              level_choice, interrupted>>
argVars == <<ranks, tucker_ranks, param_grid, names, config, verbose,
             protect_factors, same_space, force_build, reset_config>>
evalVars == <<first, seen, deterministic>>
histVars == <<pre, loop_factors, trial_exc, disturbed, evaluated, assigned, builds,
              resets, evalVars>>
optVars == <<fn, model, argVars, model_verbose, svd_rank, svd_factors, queue,
             res, histVars>>
vars == <<pc, exc, ret, gridVars, optVars>>

\* ------------------------------------------------------- Python containers
\* max(s) of a non-empty sequence
MaxOf(s) == CHOOSE x \in Range(s) : \A y \in Range(s) : y <= x

\* s without its element at position i
RemoveAt(s, i) == [j \in 1..(Len(s) - 1) |-> IF j < i THEN s[j] ELSE s[j + 1]]

\* an ordering that keeps the order of the input
SortedDescending_InputOrder(s) == s

RECURSIVE SortedDescending(_)
\* sorted(s, key=lambda x: -x)
SortedDescending(s) ==
  IF s = <<>> THEN <<>>
  ELSE LET i == CHOOSE i \in DOMAIN s :
                  /\ s[i] = MaxOf(s)
                  /\ \A j \in 1..(i - 1) : s[j] # MaxOf(s)
       IN <<s[i]>> \o SortedDescending(RemoveAt(s, i))

\* a dict, in insertion order: a sequence of <<key, value>> pairs
HasKey(d, k) == \E i \in DOMAIN d : d[i][1] = k
DictGet(d, k) == d[CHOOSE i \in DOMAIN d : d[i][1] = k][2]
DictKeys(d) == [i \in DOMAIN d |-> d[i][1]]
\* d[k] = v: a new key goes last, an old key keeps its place
DictSet(d, k, v) ==
  IF HasKey(d, k)
  THEN [i \in DOMAIN d |-> IF d[i][1] = k THEN <<k, v>> ELSE d[i]]
  ELSE Append(d, <<k, v>>)

\* an arg-max that answers the first key whatever the values
IdxMax_FirstKey(d) == d[1][1]

\* an arg-max that answers the last key holding the largest value
IdxMax_LastMaximizer(d) ==
  LET best == CHOOSE i \in DOMAIN d :
                /\ \A j \in DOMAIN d : d[j][2] <= d[i][2]
                /\ \A j \in (i + 1)..Len(d) : d[j][2] < d[i][2]
  IN d[best][1]

\* Series.idxmax(): the first key, in index order, holding the largest value
IdxMax(d) ==
  LET best == CHOOSE i \in DOMAIN d :
                /\ \A j \in DOMAIN d : d[j][2] <= d[i][2]
                /\ \A j \in 1..(i - 1) : d[j][2] < d[i][2]
  IN d[best][1]

\* ------------------------------------------------------- the model object
\* The model is the caller's object. It is described by the attributes the
\* optimizers read and write:
\*   rank     rank / mlrank, stored in _rank / _mlrank
\*   verbose  the verbosity flag
\*   ready    _is_ready
\*   factors  the dict the attribute factors points to: name -> factor, a
\*            factor being [gen: where it comes from, w: the rank it spans,
\*            of: the rank it was computed at]
\*   shared   the dict factors points to is the very dict of the snapshot
\*   recs     _recommendations
\*   attrs    every other attribute set by name
FactorKeys == {"rows", "cols"}
AttrNames == {"a", "b"}
AttrValues == {"x", "y", "nan"}

NoFactors(zero) ==
  [k \in FactorKeys |-> [gen |-> "none", w |-> zero, of |-> zero]]
FactorsAt(gen, r) == [k \in FactorKeys |-> [gen |-> gen, w |-> r, of |-> r]]
HasFactors(m) == \E k \in FactorKeys : m.factors[k].gen # "none"

\* setattr(model, name, value) for a name that is none of the above
SetAttr(m, name, value) == [m EXCEPT !.attrs[name] = value]

\* model.build(): factors computed afresh at the model's rank
Build(m) ==
  [m EXCEPT !.ready = TRUE, !.factors = FactorsAt("built", m.rank),
            !.shared = FALSE]

\* factors cut down to rank r, in a dict of their own
Truncated(m, r) ==
  [k \in FactorKeys |->
     IF m.factors[k].gen = "none" THEN m.factors[k]
     ELSE [m.factors[k] EXCEPT !.w = r]]

\* model.rank = r: the setter of a model with one rank. Factors that span
\* at least r are cut down to r; narrower ones are dropped and the model is
\* not ready any more
SetRank(m, r) ==
  IF r = m.rank THEN m
  ELSE IF \E k \in FactorKeys : m.factors[k].gen # "none" /\ m.factors[k].w < r
  THEN [m EXCEPT !.rank = r, !.ready = FALSE, !.factors = NoFactors(0),
                 !.shared = FALSE, !.recs = "None"]
  ELSE [m EXCEPT !.rank = r, !.factors = Truncated(m, r), !.shared = FALSE,
                 !.recs = "None"]

\* model.factors[k] = <a new factor>: an entry replaced in the dict itself
ReplaceEntry(f, k) == [f EXCEPT ![k].gen = "changed"]

\* the arrays held by the factors: those a ready model was handed over with
\* are what its build computes at that rank
Content(f) ==
  [k \in FactorKeys |->
     [f[k] EXCEPT !.gen = IF f[k].gen = "given" THEN "built" ELSE f[k].gen]]

\* --------------------------------------------------------------- set_config
\* line 59: value if value == value else None
ConvertNan(value) == IF value = "nan" THEN "None" ELSE value

RECURSIVE set_config(_, _, _)
\* lines 56-60; cfg is a dict of name -> value
set_config(m, cfg, convert_nan) ==
  IF cfg = <<>> THEN m
  ELSE set_config(
         SetAttr(m, cfg[1][1],
                 IF convert_nan THEN ConvertNan(cfg[1][2]) ELSE cfg[1][2]),
         Tail(cfg), convert_nan)

\* the values an evaluator returns for the target metric
MaxScore == 2
Scores == 1..MaxScore

\* config arguments: None, or a dict
Configs == {<<>>, <<<<"a", "nan">>, <<"b", "y">>>>}
DefaultAttrs == [a \in AttrNames |-> "None"]

GridIdle ==
  /\ params = <<>> /\ budget = 0 /\ skip_config = "none" /\ grid_cache = {}
  /\ n = 0 /\ grid = {} /\ skipped = {} /\ level_choice = <<>>
  /\ interrupted = FALSE

HistInit ==
  /\ pre = model /\ loop_factors = model.factors /\ trial_exc = "none"
  /\ disturbed = FALSE
  /\ evaluated = <<>> /\ assigned = {} /\ builds = 0 /\ resets = 0
  /\ seen = {} /\ first = <<>>

OptIdle ==
  /\ fn = "random_grid"
  /\ model = [rank |-> 0, verbose |-> FALSE, ready |-> FALSE,
              factors |-> NoFactors(0), shared |-> FALSE, recs |-> "None",
              attrs |-> DefaultAttrs]
  /\ ranks = <<>> /\ tucker_ranks = <<>> /\ param_grid = <<>>
  /\ names = <<>>
  /\ config = <<>> /\ verbose = FALSE /\ protect_factors = FALSE
  /\ same_space = FALSE /\ force_build = FALSE /\ reset_config = "None"
  /\ model_verbose = FALSE /\ svd_rank = 0 /\ svd_factors = NoFactors(0)
  /\ queue = <<>> /\ res = <<>>
  /\ HistInit
  /\ deterministic = FALSE

\* ------------------------------------------------------------ random_grid
\* candidate sequences of the first parameter: every sequence over 1..MaxVal
\* of length 1..MaxLen, repeated values included
CandidateSeqs == UNION {[1..k -> 1..MaxVal] : k \in 1..MaxLen}
\* candidate sequences of an optional second parameter
SecondSeqs == {<<1, 2>>, <<2, 2>>}
ParamGrids ==
  {<<[name |-> "a", vals |-> s]>> : s \in CandidateSeqs} \cup
  {<<[name |-> "a", vals |-> s], [name |-> "b", vals |-> t]>> :
      s \in CandidateSeqs, t \in SecondSeqs}

\* zip(*params.items()), line 29
param_names(p) == [i \in DOMAIN p |-> p[i].name]
param_values(p) == [i \in DOMAIN p |-> p[i].vals]

\* the tuples that can be drawn from p: the Cartesian product as a set
RECURSIVE ProductOf(_)
ProductOf(pv) ==
  IF pv = <<>> THEN {<<>>}
  ELSE {<<v>> \o t : v \in Range(Head(pv)), t \in ProductOf(Tail(pv))}

\* max_n = reduce(mul_op, [len(vals) for vals in param_values]), line 31
max_n(p) == SeqProduct([i \in DOMAIN p |-> Len(p[i].vals)])

\* n = min(n if n > 0 else max_n, max_n), line 32
EffectiveN(b, p) == Min(IF b > 0 THEN b ELSE max_n(p), max_n(p))

\* the exclusion predicates a caller may pass; "none" is skip_config=None,
\* replaced by never_skip at lines 35-37
SkipPredicates == {"none", "first_is_1", "all"}
SkipConfig(name, tuple) ==
  CASE name = "none" -> FALSE
    [] name = "first_is_1" -> tuple[1] = 1
    [] name = "all" -> TRUE

\* previously sampled sets: none, or one tuple of the product
GridCaches(p) == {{}} \cup {{t} : t \in ProductOf(param_values(p))}

\* a loop test that forgets the skip set
LoopCondition_IgnoreSkipped == Cardinality(grid) < n

\* while len(grid) < (n-len(skipped)), line 41
LoopCondition == Cardinality(grid) < n - Cardinality(skipped)

InitGrid ==
  /\ OptIdle
  /\ pc = "rg_start" /\ exc = "none" /\ ret = <<>>
  /\ params \in ParamGrids
  /\ budget \in -1..MaxBudget
  /\ skip_config \in SkipPredicates
  /\ grid_cache \in GridCaches(params)
  /\ n = budget /\ grid = {} /\ skipped = {} /\ level_choice = <<>>
  /\ interrupted = FALSE

\* lines 24-39: argument checks, grid and n set up
rg_Setup ==
  /\ UNCHANGED optVars
  /\ pc = "rg_start"
  /\ IF budget < 0
     THEN /\ pc' = "raised" /\ exc' = "ValueError"
          /\ UNCHANGED <<n, grid>>
     ELSE /\ grid' = grid_cache
          /\ n' = EffectiveN(budget, params)
          /\ pc' = "rg_test" /\ exc' = exc
  /\ skipped' = {}
  /\ UNCHANGED <<ret, params, budget, skip_config, grid_cache, level_choice,
                 interrupted>>

\* the value random_grid returns, line 53
rg_Return(g) == <<g, param_names(params)>>

\* line 41: the loop test; line 53 when it fails
rg_LoopTest ==
  /\ UNCHANGED optVars
  /\ pc = "rg_test"
  /\ IF LoopCondition
     THEN /\ pc' = "rg_draw" /\ level_choice' = <<>> /\ ret' = ret
     ELSE /\ pc' = "returned" /\ ret' = rg_Return(grid)
          /\ level_choice' = level_choice
  /\ UNCHANGED <<exc, params, budget, skip_config, grid_cache, n, grid,
                 skipped, interrupted>>

\* lines 43-46: one value drawn for the next parameter, choice(values) picking
\* position i of its candidate sequence
rg_Draw(prefix, i) ==
  /\ UNCHANGED optVars
  /\ pc = "rg_draw"
  /\ level_choice = prefix
  /\ Len(prefix) < Len(params)
  /\ i \in DOMAIN params[Len(prefix) + 1].vals
  /\ level_choice' = Append(prefix, params[Len(prefix) + 1].vals[i])
  /\ pc' = IF Len(prefix) + 1 = Len(params) THEN "rg_skip" ELSE "rg_draw"
  /\ UNCHANGED <<exc, ret, params, budget, skip_config, grid_cache, n, grid,
                 skipped, interrupted>>

\* a loop body that adds the drawn tuple without asking the predicate
rg_SkipOrAdd_NeverAsks ==
  /\ UNCHANGED optVars
  /\ pc = "rg_skip"
  /\ grid' = grid \cup {level_choice}
  /\ pc' = "rg_test"
  /\ UNCHANGED <<exc, ret, params, budget, skip_config, grid_cache, n,
                 skipped, level_choice, interrupted>>

\* a loop body that does not keep the excluded tuples
rg_SkipOrAdd_ForgetsSkipped ==
  /\ UNCHANGED optVars
  /\ pc = "rg_skip"
  /\ IF SkipConfig(skip_config, level_choice)
     THEN grid' = grid
     ELSE grid' = grid \cup {level_choice}
  /\ pc' = "rg_test"
  /\ UNCHANGED <<exc, ret, params, budget, skip_config, grid_cache, n,
                 skipped, level_choice, interrupted>>

\* a loop body whose grid is the previously-sampled collection itself
rg_SkipOrAdd_AddsToCache ==
  /\ UNCHANGED optVars
  /\ pc = "rg_skip"
  /\ IF SkipConfig(skip_config, level_choice)
     THEN /\ skipped' = skipped \cup {level_choice}
          /\ UNCHANGED <<grid, grid_cache>>
     ELSE /\ grid' = grid \cup {level_choice}
          /\ grid_cache' = grid_cache \cup {level_choice}
          /\ skipped' = skipped
  /\ pc' = "rg_test"
  /\ UNCHANGED <<exc, ret, params, budget, skip_config, n, level_choice,
                 interrupted>>

\* lines 47-50: the drawn tuple is recorded as skipped or added to the grid
rg_SkipOrAdd ==
  /\ UNCHANGED optVars
  /\ pc = "rg_skip"
  /\ IF SkipConfig(skip_config, level_choice)
     THEN skipped' = skipped \cup {level_choice} /\ grid' = grid
     ELSE grid' = grid \cup {level_choice} /\ skipped' = skipped
  /\ pc' = "rg_test"
  /\ UNCHANGED <<exc, ret, params, budget, skip_config, grid_cache, n,
                 level_choice, interrupted>>

\* an interruption that is not caught
rg_OnInterrupt_Propagates ==
  /\ pc' = "raised" /\ exc' = "KeyboardInterrupt" /\ ret' = ret

\* what the except clause of lines 51-53 leaves to the caller
rg_OnInterrupt ==
  /\ pc' = "returned" /\ ret' = rg_Return(grid) /\ exc' = exc

\* a KeyboardInterrupt raised anywhere inside the try block, lines 40-52
rg_Interrupt ==
  /\ UNCHANGED optVars
  /\ pc \in {"rg_test", "rg_draw", "rg_skip"}
  /\ interrupted' = TRUE
  /\ rg_OnInterrupt
  /\ UNCHANGED <<params, budget, skip_config, grid_cache, n, grid, skipped,
                 level_choice>>

DrawPrefixes == {<<>>} \cup {<<v>> : v \in 1..MaxVal}
DrawPositions == 1..MaxLen

NextGrid ==
  \/ rg_Setup
  \/ rg_LoopTest
  \/ \E prefix \in DrawPrefixes, i \in DrawPositions : rg_Draw(prefix, i)
  \/ rg_SkipOrAdd
  \/ rg_Interrupt

SpecGrid == InitGrid /\ [][NextGrid]_vars

\* choice() is fair: a loop that keeps drawing draws every value of every
\* parameter after every prefix again and again
FairDraws ==
  \A prefix \in DrawPrefixes, i \in DrawPositions :
    SF_vars(rg_Draw(prefix, i))
SpecGridFair ==
  SpecGrid /\ FairDraws /\ WF_vars(rg_Setup) /\ WF_vars(rg_LoopTest)
           /\ WF_vars(rg_SkipOrAdd)

\* the candidate values are pairwise distinct within each parameter
DistinctValues ==
  \A i \in DOMAIN params : \A j, k \in DOMAIN params[i].vals :
    j # k => params[i].vals[j] # params[i].vals[k]

\* the tuples of the product drawn by no iteration so far
Unseen == ProductOf(param_values(params)) \ (grid \cup skipped)

\* a draw for parameter k + 1 after which the tuple being assembled can
\* still become a tuple that was not drawn before
rg_DrawUnseen(k) ==
  \E prefix \in DrawPrefixes, i \in DrawPositions :
    /\ Len(prefix) = k
    /\ rg_Draw(prefix, i)
    /\ \E t \in Unseen : SubSeq(t, 1, k + 1) = level_choice'

\* lines 43-45: some value is drawn for the next parameter
rg_DrawAny ==
  \E prefix \in DrawPrefixes, i \in DrawPositions : rg_Draw(prefix, i)

\* choice() answers, and it is fair: a loop that keeps drawing, some tuple
\* being still undrawn, does not miss the undrawn tuples for ever, at any
\* parameter
FairProgress ==
  /\ WF_vars(rg_DrawAny)
  /\ \A k \in {Len(prefix) : prefix \in DrawPrefixes} : SF_vars(rg_DrawUnseen(k))

\* the candidate values are listed in increasing order
IncreasingValues ==
  \A i \in DOMAIN params : \A j, k \in DOMAIN params[i].vals :
    j < k => params[i].vals[j] < params[i].vals[k]

\* random_grid called with pairwise distinct candidate values (listed in
\* increasing order: the draws do not depend on the order) and n >= 0,
\* under fair draws
InitGridDistinct == InitGrid /\ IncreasingValues /\ budget >= 0
SpecGridDistinctFair ==
  /\ InitGridDistinct /\ [][NextGrid]_vars
  /\ FairProgress /\ WF_vars(rg_Setup) /\ WF_vars(rg_LoopTest)
  /\ WF_vars(rg_SkipOrAdd)
\* ---------------------------------------------------- find_optimal_svd_rank
\* largest candidate rank
MaxRank == 3
\* longest list of candidate ranks
MaxCands == 2

RankLists == UNION {[1..k -> 1..MaxRank] : k \in 1..MaxCands}

\* the rank a model is handed over with: the smallest one, which no
\* candidate is below, or the largest one, which no candidate is above
ModelRanks == {1, MaxRank}

\* a model with one rank, as a caller may hand it over: not built yet, or
\* built at its rank
SvdModels ==
  {[rank |-> r, verbose |-> v, ready |-> b,
    factors |-> IF b THEN FactorsAt("given", r) ELSE NoFactors(0),
    shared |-> FALSE, recs |-> "None", attrs |-> DefaultAttrs] :
     r \in ModelRanks, v \in BOOLEAN, b \in BOOLEAN}

\* a call of find_optimal_svd_rank about to begin
InitSvdCall ==
  /\ fn = "svd" /\ pc = "svd_start" /\ exc = "none" /\ ret = <<>>
  /\ GridIdle
  /\ model \in SvdModels
  /\ ranks \in RankLists
  /\ config \in Configs
  /\ verbose \in BOOLEAN
  /\ protect_factors \in BOOLEAN
  /\ tucker_ranks = <<>> /\ param_grid = <<>> /\ names = <<>>
  /\ same_space = FALSE /\ force_build = FALSE /\ reset_config = "None"
  /\ model_verbose = FALSE /\ svd_rank = 0 /\ svd_factors = NoFactors(0)
  /\ queue = <<>> /\ res = <<>>
  /\ HistInit

\* the evaluator may be any callable
InitSvd == InitSvdCall /\ deterministic = FALSE

\* lines 85-91: verbosity saved, config applied, the rank raised to the
\* largest rank needed
svd_Setup ==
  /\ pc = "svd_start" /\ fn = "svd"
  /\ model_verbose' = model.verbose
  /\ svd_rank' = Max(MaxOf(ranks), model.rank)
  /\ LET configured == IF config # <<>> THEN set_config(model, config, TRUE)
                       ELSE model
         raised == SetRank(configured, svd_rank')
     IN IF ~raised.ready
        THEN /\ model' = [raised EXCEPT !.verbose = verbose]
             /\ pc' = "svd_build"
        ELSE /\ model' = raised
             /\ pc' = "svd_snapshot"
  /\ assigned' = assigned \cup {svd_rank'}
  /\ UNCHANGED <<exc, ret, gridVars, fn, argVars, svd_factors, queue, res,
                 pre, evalVars, loop_factors, trial_exc, disturbed, evaluated, builds,
                 resets>>

\* line 92: model.build(), which may fail
svd_Build ==
  /\ pc = "svd_build" /\ fn = "svd"
  /\ \/ /\ model' = Build(model)
        /\ builds' = builds + 1
        /\ pc' = "svd_snapshot" /\ exc' = exc
     \/ /\ pc' = "raised" /\ exc' = "BuildError"
        /\ UNCHANGED <<model, builds>>
  /\ UNCHANGED <<ret, gridVars, fn, argVars, model_verbose, svd_rank,
                 svd_factors, queue, res, pre, evalVars, loop_factors, trial_exc,
                 disturbed, evaluated, assigned, resets>>

\* lines 94-99: the snapshot of the factors (a dict of its own, so the
\* model's dict is not the snapshot), the empty result, the candidates in
\* descending order
svd_Snapshot ==
  /\ pc = "svd_snapshot" /\ fn = "svd"
  /\ svd_factors' = IF protect_factors THEN model.factors ELSE svd_factors
  /\ model' = [model EXCEPT !.shared = FALSE]
  /\ loop_factors' = model.factors
  /\ res' = <<>>
  /\ queue' = SortedDescending(ranks)
  /\ pc' = "svd_loop"
  /\ UNCHANGED <<exc, ret, gridVars, fn, argVars, model_verbose,
                 svd_rank, pre, evalVars, trial_exc, disturbed, evaluated, assigned,
                 builds, resets>>

\* the factors an evaluation may leave behind: the same, or one entry of
\* the dict replaced
AfterEvaluation(f) == {f} \cup {ReplaceEntry(f, k) : k \in FactorKeys}

\* what the evaluation of a model is computed from
EvalKey(m) == <<m.rank, Content(m.factors)>>

\* what the evaluator may do with model m: <<score, factors left behind>>,
\* score 0 standing for an exception. A deterministic evaluator does what it
\* did before on the same rank and factors
Outcomes(m) ==
  LET all == {<<s, f>> : s \in Scores \cup {0}, f \in AfterEvaluation(m.factors)}
  IN IF deterministic
     THEN {o \in all : \A e \in seen :
             e[1] = EvalKey(m) => (e[2] = o[1] /\ e[3] = Content(o[2]))}
     ELSE all

\* lines 100-103: one candidate: the rank assigned, the model evaluated (the
\* evaluation may replace an entry of the factors, and may fail), the cached
\* recommendations dropped
svd_Trial ==
  /\ pc = "svd_loop" /\ fn = "svd" /\ queue # <<>>
  /\ LET rank == Head(queue)
         ranked == SetRank(model, rank)
     IN /\ assigned' = assigned \cup {rank}
        /\ evaluated' = Append(evaluated, rank)
        /\ \E o \in Outcomes(ranked) :
            LET score == o[1]
                f == o[2]
            IN /\ svd_factors' = IF ranked.shared THEN f ELSE svd_factors
               /\ disturbed' = (disturbed \/ f # ranked.factors)
               /\ seen' = IF deterministic
                          THEN seen \cup {<<EvalKey(ranked), score, Content(f)>>}
                          ELSE seen
               /\ IF score \in Scores
                  THEN /\ res' = DictSet(res, rank, score)
                       /\ model' = [ranked EXCEPT !.factors = f, !.recs = "None"]
                       /\ queue' = Tail(queue)
                       /\ pc' = "svd_loop"
                       /\ trial_exc' = trial_exc
                  ELSE /\ model' = [ranked EXCEPT !.factors = f, !.recs = "cached"]
                       /\ trial_exc' = "EvalError"
                       /\ pc' = "svd_finally"
                       /\ UNCHANGED <<res, queue>>
  /\ UNCHANGED <<exc, ret, gridVars, fn, argVars, model_verbose, svd_rank,
                 pre, first, deterministic, loop_factors, builds, resets>>

\* line 99: the candidates are exhausted
svd_LoopEnd ==
  /\ pc = "svd_loop" /\ fn = "svd" /\ queue = <<>>
  /\ pc' = "svd_finally"
  /\ UNCHANGED <<exc, ret, gridVars, optVars>>

\* a teardown that restores the rank and forgets the factors
svd_Restore_RankOnly(m) ==
  IF protect_factors THEN [m EXCEPT !.rank = svd_rank, !.verbose = model_verbose]
  ELSE [m EXCEPT !.verbose = model_verbose]

\* a teardown that puts back the verbosity only
svd_Restore_VerbosityOnly(m) == [m EXCEPT !.verbose = model_verbose]

\* a teardown that puts the rank back whether the factors are protected
\* or not
svd_Restore_RankAlways(m) ==
  IF protect_factors
  THEN [m EXCEPT !.rank = svd_rank, !.factors = svd_factors, !.shared = TRUE,
                 !.verbose = model_verbose]
  ELSE [m EXCEPT !.rank = svd_rank, !.verbose = model_verbose]

\* lines 105-108: _rank and factors put back when protected, verbosity
\* put back
svd_Restore(m) ==
  IF protect_factors
  THEN [m EXCEPT !.rank = svd_rank, !.factors = svd_factors, !.shared = TRUE,
                 !.verbose = model_verbose]
  ELSE [m EXCEPT !.verbose = model_verbose]

\* lines 104-108: the finally clause, then the failure goes on to the caller
svd_Finally ==
  /\ pc = "svd_finally" /\ fn = "svd"
  /\ model' = svd_Restore(model)
  /\ IF trial_exc # "none"
     THEN pc' = "raised" /\ exc' = trial_exc
     ELSE pc' = "svd_select" /\ exc' = exc
  /\ UNCHANGED <<ret, gridVars, fn, argVars, model_verbose, svd_rank,
                 svd_factors, queue, res, histVars>>

\* lines 110-116: the best rank, alone or with scores.loc[ranks]
svd_Select ==
  /\ pc = "svd_select" /\ fn = "svd"
  /\ \E return_scores \in BOOLEAN :
       ret' = IF return_scores
              THEN <<IdxMax(res),
                     [i \in DOMAIN ranks |-> <<ranks[i], DictGet(res, ranks[i])>>]>>
              ELSE <<IdxMax(res)>>
  /\ pc' = "returned"
  /\ UNCHANGED <<exc, gridVars, optVars>>

NextSvd ==
  \/ svd_Setup
  \/ svd_Build
  \/ svd_Snapshot
  \/ svd_Trial
  \/ svd_LoopEnd
  \/ svd_Finally
  \/ svd_Select

SpecSvd == InitSvd /\ [][NextSvd]_vars

\* ------------------------------- find_optimal_svd_rank called a second time
\* the evaluator is a function of the model's rank and factors; the
\* arguments that do not reach it keep their defaults
InitSvdTwice ==
  /\ InitSvdCall /\ deterministic = TRUE
  /\ Len(ranks) <= 2
  /\ config = <<>> /\ verbose = FALSE /\ model.verbose = FALSE

\* the caller keeps what the first call returned and calls again, with the
\* same arguments, on the model as the first call left it
svd_CallAgain ==
  /\ pc = "returned" /\ fn = "svd" /\ first = <<>>
  /\ first' = <<IdxMax(res), res>>
  /\ pc' = "svd_start" /\ ret' = <<>>
  /\ pre' = model
  /\ evaluated' = <<>> /\ assigned' = {} /\ builds' = 0 /\ disturbed' = FALSE
  /\ UNCHANGED <<exc, gridVars, fn, model, argVars, model_verbose, svd_rank,
                 svd_factors, queue, res, loop_factors, trial_exc, resets,
                 seen, deterministic>>

NextSvdTwice == NextSvd \/ svd_CallAgain

SpecSvdTwice == InitSvdTwice /\ [][NextSvdTwice]_vars

\* ------------------------------------------------ find_optimal_tucker_ranks
\* largest candidate rank of the third mode
MaxTuckerRank == 3

\* candidate sequences of the three modes
Mode1Lists == {<<1>>, <<2>>, <<1, 2>>}
Mode2Lists == {<<1>>, <<2>>, <<2, 1>>}
Mode3Lists == {<<r>> : r \in 1..MaxTuckerRank} \cup {<<1, MaxTuckerRank>>}
TuckerRankLists ==
  {<<l1, l2, l3>> : l1 \in Mode1Lists, l2 \in Mode2Lists, l3 \in Mode3Lists}

\* tuple([max(mode_ranks) for mode_ranks in tucker_ranks]), line 127
PerModeMax(tr) == [i \in DOMAIN tr |-> MaxOf(tr[i])]

\* a model with three ranks, as a caller may hand it over
TuckerModels ==
  {[rank |-> r, verbose |-> v, ready |-> b,
    factors |-> IF b THEN FactorsAt("given", r) ELSE NoFactors(<<0, 0, 0>>),
    shared |-> FALSE, recs |-> "None", attrs |-> DefaultAttrs] :
     r \in {<<1, 1, 1>>, <<2, 2, 3>>}, v \in BOOLEAN, b \in BOOLEAN}

\* model.mlrank = r: the setter of a model with three ranks. Factors that
\* span at least r in every mode are cut down to r; others are dropped and
\* the model is not ready any more
SetMlrank(m, r) ==
  IF r = m.rank THEN m
  ELSE IF \E k \in FactorKeys :
            /\ m.factors[k].gen # "none"
            /\ \E i \in DOMAIN r : m.factors[k].w[i] < r[i]
  THEN [m EXCEPT !.rank = r, !.ready = FALSE,
                 !.factors = NoFactors(<<0, 0, 0>>), !.shared = FALSE,
                 !.recs = "None"]
  ELSE [m EXCEPT !.rank = r, !.factors = Truncated(m, r), !.shared = FALSE,
                 !.recs = "None"]

\* nested loops with mode 3 outermost and mode 1 innermost
NestedProduct_Mode3Outermost(tr) ==
  LET l1 == Len(tr[1])
      l2 == Len(tr[2])
  IN [k \in 1..(l1 * l2 * Len(tr[3])) |->
        <<tr[1][((k - 1) % l1) + 1],
          tr[2][(((k - 1) \div l1) % l2) + 1],
          tr[3][((k - 1) \div (l1 * l2)) + 1]>>]

\* the triples of the three nested loops of lines 137-141, in loop order
NestedProduct(tr) ==
  LET l2 == Len(tr[2])
      l3 == Len(tr[3])
  IN [k \in 1..(Len(tr[1]) * l2 * l3) |->
        <<tr[1][((k - 1) \div (l2 * l3)) + 1],
          tr[2][(((k - 1) \div l3) % l2) + 1],
          tr[3][((k - 1) % l3) + 1]>>]

\* a pruning rule that tests the first product only
IsPruned_FirstProductOnly(t) == t[1] * t[2] < t[3]

\* line 142: (r1*r2 < r3) or (r1*r3 < r2) or (r2*r3 < r1)
IsPruned(t) ==
  (t[1] * t[2] < t[3]) \/ (t[1] * t[3] < t[2]) \/ (t[2] * t[3] < t[1])

\* line 139: same_space and (r2 != r1)
IsOtherSpace(t) == same_space /\ t[2] # t[1]

LexLess(a, b) ==
  \E i \in DOMAIN a : a[i] < b[i] /\ \A j \in 1..(i - 1) : a[j] = b[j]

RECURSIVE SortIndex(_)
\* Series.sort_index() of a series keyed by triples
SortIndex(d) ==
  IF d = <<>> THEN <<>>
  ELSE LET i == CHOOSE i \in DOMAIN d :
                  \A j \in DOMAIN d : j = i \/ LexLess(d[i][1], d[j][1])
       IN <<d[i]>> \o SortIndex(RemoveAt(d, i))

InitTucker ==
  /\ fn = "tucker" /\ pc = "tk_start" /\ exc = "none" /\ ret = <<>>
  /\ GridIdle
  /\ model \in TuckerModels
  /\ tucker_ranks \in TuckerRankLists
  /\ config \in Configs
  /\ verbose \in BOOLEAN
  /\ same_space \in BOOLEAN
  /\ ranks = <<>> /\ param_grid = <<>> /\ names = <<>>
  /\ protect_factors = TRUE /\ force_build = FALSE /\ reset_config = "None"
  /\ model_verbose = FALSE /\ svd_rank = <<0, 0, 0>>
  /\ svd_factors = NoFactors(<<0, 0, 0>>)
  /\ queue = <<>> /\ res = <<>>
  /\ HistInit
  /\ deterministic = FALSE

\* lines 123-130: verbosity saved, config applied, the rank set to the
\* per-mode maxima
tk_Setup ==
  /\ pc = "tk_start" /\ fn = "tucker"
  /\ model_verbose' = model.verbose
  /\ LET configured == IF config # <<>> THEN set_config(model, config, TRUE)
                       ELSE model
         raised == SetMlrank(configured, PerModeMax(tucker_ranks))
     IN IF ~raised.ready
        THEN /\ model' = [raised EXCEPT !.verbose = verbose]
             /\ pc' = "tk_build"
        ELSE /\ model' = raised
             /\ pc' = "tk_snapshot"
  /\ assigned' = assigned \cup {PerModeMax(tucker_ranks)}
  /\ UNCHANGED <<exc, ret, gridVars, fn, argVars, svd_rank, svd_factors,
                 queue, res, pre, evalVars, loop_factors, trial_exc, disturbed,
                 evaluated, builds, resets>>

\* line 131: model.build(), which may fail
tk_Build ==
  /\ pc = "tk_build" /\ fn = "tucker"
  /\ \/ /\ model' = Build(model)
        /\ builds' = builds + 1
        /\ pc' = "tk_snapshot" /\ exc' = exc
     \/ /\ pc' = "raised" /\ exc' = "BuildError"
        /\ UNCHANGED <<model, builds>>
  /\ UNCHANGED <<ret, gridVars, fn, argVars, model_verbose, svd_rank,
                 svd_factors, queue, res, pre, evalVars, loop_factors, trial_exc,
                 disturbed, evaluated, assigned, resets>>

\* lines 133-137: the snapshot of the factors, the rank read back, the empty
\* result
tk_Snapshot ==
  /\ pc = "tk_snapshot" /\ fn = "tucker"
  /\ svd_factors' = model.factors
  /\ svd_rank' = model.rank
  /\ loop_factors' = model.factors
  /\ res' = <<>>
  /\ queue' = NestedProduct(tucker_ranks)
  /\ pc' = "tk_loop"
  /\ UNCHANGED <<exc, ret, gridVars, fn, model, argVars, model_verbose, pre, evalVars,
                 trial_exc, disturbed, evaluated, assigned, builds, resets>>

\* lines 139-143: a triple of another space, or a pruned one, is passed over
tk_Skip ==
  /\ pc = "tk_loop" /\ fn = "tucker" /\ queue # <<>>
  /\ IsOtherSpace(Head(queue)) \/ IsPruned(Head(queue))
  /\ queue' = Tail(queue)
  /\ UNCHANGED <<pc, exc, ret, gridVars, fn, model, argVars, model_verbose,
                 svd_rank, svd_factors, res, histVars>>

\* lines 144-148: one trial: the rank assigned, the model evaluated (the
\* evaluation may replace an entry of the factors, and may fail), the cached
\* recommendations dropped
tk_Trial ==
  /\ pc = "tk_loop" /\ fn = "tucker" /\ queue # <<>>
  /\ ~(IsOtherSpace(Head(queue)) \/ IsPruned(Head(queue)))
  /\ LET mlrank == Head(queue)
         ranked == SetMlrank(model, mlrank)
     IN /\ assigned' = assigned \cup {mlrank}
        /\ evaluated' = Append(evaluated, mlrank)
        /\ \E f \in AfterEvaluation(ranked.factors) :
            /\ svd_factors' = IF ranked.shared THEN f ELSE svd_factors
            /\ disturbed' = (disturbed \/ f # ranked.factors)
            /\ \/ \E score \in Scores :
                    /\ res' = DictSet(res, mlrank, score)
                    /\ model' = [ranked EXCEPT !.factors = f, !.recs = "None"]
                    /\ trial_exc' = trial_exc
               \/ /\ model' = [ranked EXCEPT !.factors = f, !.recs = "cached"]
                  /\ trial_exc' = "EvalError"
                  /\ res' = res
  /\ queue' = Tail(queue)
  /\ pc' = "tk_finally"
  /\ UNCHANGED <<exc, ret, gridVars, fn, argVars, model_verbose, svd_rank,
                 pre, evalVars, loop_factors, builds, resets>>

\* a restore that hands the snapshot itself back to the model
tk_Restore_SharesSnapshot(m) ==
  [m EXCEPT !.rank = svd_rank, !.factors = svd_factors, !.shared = TRUE]

\* lines 150-151: _mlrank put back, factors put back as a copy of the
\* snapshot
tk_Restore(m) ==
  [m EXCEPT !.rank = svd_rank, !.factors = svd_factors, !.shared = FALSE]

\* lines 149-151: the finally clause of a trial, then the next triple or the
\* failure going on to the caller
tk_Finally ==
  /\ pc = "tk_finally" /\ fn = "tucker"
  /\ model' = tk_Restore(model)
  /\ IF trial_exc # "none"
     THEN pc' = "raised" /\ exc' = trial_exc
     ELSE pc' = "tk_loop" /\ exc' = exc
  /\ UNCHANGED <<ret, gridVars, fn, argVars, model_verbose, svd_rank,
                 svd_factors, queue, res, histVars>>

\* lines 152-160: verbosity put back, the sorted series, the best triple
\* (idxmax of an empty series raises)
tk_Finish ==
  /\ pc = "tk_loop" /\ fn = "tucker" /\ queue = <<>>
  /\ model' = [model EXCEPT !.verbose = model_verbose]
  /\ IF res = <<>>
     THEN pc' = "raised" /\ exc' = "ValueError" /\ ret' = ret
     ELSE /\ pc' = "returned" /\ exc' = exc
          /\ \E return_scores \in BOOLEAN :
               ret' = IF return_scores
                      THEN <<IdxMax(SortIndex(res)), SortIndex(res)>>
                      ELSE <<IdxMax(SortIndex(res))>>
  /\ UNCHANGED <<gridVars, fn, argVars, model_verbose, svd_rank, svd_factors,
                 queue, res, histVars>>

NextTucker ==
  \/ tk_Setup
  \/ tk_Build
  \/ tk_Snapshot
  \/ tk_Skip
  \/ tk_Trial
  \/ tk_Finally
  \/ tk_Finish

SpecTucker == InitTucker /\ [][NextTucker]_vars

\* ------------------------------------------------------ find_optimal_config
\* longest param_grid
MaxTrials == 2

\* lines 10-14, on the kind of the object
is_list_like(kind, allow_sets, allow_dict) ==
  \/ kind \in {"list", "tuple"}
  \/ kind = "set" /\ allow_sets
  \/ kind = "dict" /\ allow_dict

RECURSIVE ZipInto(_, _, _)
ZipInto(d, nms, prms) ==
  IF nms = <<>> \/ prms = <<>> THEN d
  ELSE ZipInto(DictSet(d, Head(nms), Head(prms)), Tail(nms), Tail(prms))

\* Python values, by kind: a string is the sequence of its characters, a
\* tuple the sequence of its items
Str(chars) == [kind |-> "str", val |-> chars]
Num(i) == [kind |-> "int", val |-> <<i>>]
Tuple(items) == [kind |-> "tuple", val |-> items]

\* zip() takes iterables: iterating a non-iterable raises TypeError
IsIterable(x) == x.kind \in {"str", "tuple"}
\* what iterating x yields: the characters of a string, each a string of
\* its own, or the items of a tuple
Elements(x) ==
  IF x.kind = "str" THEN [i \in DOMAIN x.val |-> Str(<<x.val[i]>>)] ELSE x.val

\* lines 163-167: dict(zip(names, params)), and {names: params} when zip
\* raises TypeError
params_to_dict(nms, prms) ==
  IF IsIterable(nms) /\ IsIterable(prms)
  THEN ZipInto(<<>>, Elements(nms), Elements(prms))
  ELSE <<<<nms, prms>>>>

\* param_names with the candidate tuples that go with them
NamedTuples ==
  {[names |-> <<"a", "b">>,
    tuples |-> {<<"x", "x">>, <<"x", "y">>, <<"nan", "y">>}],
   [names |-> <<"a">>, tuples |-> {<<"x">>, <<"y">>}]}
ParamGridsOf(tuples) == UNION {[1..k -> tuples] : k \in 0..MaxTrials}

\* init_config: None, one dict, or a list of dicts
InitConfigs ==
  {[kind |-> "none", items |-> <<>>],
   [kind |-> "dict", items |-> <<<<"b", "x">>>>],
   [kind |-> "list", items |-> <<<<<<"a", "y">>>>, <<<<"b", "nan">>>>>>]}

\* lines 176-178: the list of configs looped over at line 179
InitConfigList(ic) ==
  IF ic.kind = "none" THEN <<>>
  ELSE IF ~is_list_like(ic.kind, FALSE, FALSE) THEN <<ic.items>>
  ELSE ic.items

RECURSIVE ApplyAll(_, _)
\* lines 179-180
ApplyAll(m, cfgs) ==
  IF cfgs = <<>> THEN m
  ELSE ApplyAll(set_config(m, Head(cfgs), TRUE), Tail(cfgs))

\* reset_config: None, a dict, a callable, a callable that raises, or an
\* object of another type
ResetConfigs == {"None", "dict", "callable", "failing_callable", "unsupported"}
ResetDict == <<<<"a", "nan">>, <<"b", "x">>>>

\* a model as a caller may hand it over to find_optimal_config
ConfigModels ==
  {[rank |-> 1, verbose |-> v, ready |-> b,
    factors |-> IF b THEN FactorsAt("given", 1) ELSE NoFactors(0),
    shared |-> FALSE, recs |-> "None", attrs |-> DefaultAttrs] :
     v \in BOOLEAN, b \in BOOLEAN}

InitConfig ==
  /\ fn = "config" /\ pc = "fc_start" /\ exc = "none" /\ ret = <<>>
  /\ GridIdle
  /\ model \in ConfigModels
  /\ \E nt \in NamedTuples :
       names = nt.names /\ param_grid \in ParamGridsOf(nt.tuples)
  /\ config \in InitConfigs
  /\ verbose \in BOOLEAN
  /\ force_build \in BOOLEAN
  /\ reset_config \in ResetConfigs
  /\ ranks = <<>> /\ tucker_ranks = <<>>
  /\ protect_factors = FALSE /\ same_space = FALSE
  /\ model_verbose = FALSE /\ svd_rank = 0 /\ svd_factors = NoFactors(0)
  /\ queue = <<>> /\ res = <<>>
  /\ HistInit
  /\ deterministic = FALSE

\* lines 173-184: verbosity saved, the initial configs applied, verbosity
\* set, the empty result
fc_Setup ==
  /\ pc = "fc_start" /\ fn = "config"
  /\ model_verbose' = model.verbose
  /\ model' = [ApplyAll(model, InitConfigList(config)) EXCEPT !.verbose = verbose]
  /\ res' = <<>>
  /\ queue' = param_grid
  /\ pc' = "fc_loop"
  /\ UNCHANGED <<exc, ret, gridVars, fn, argVars, svd_rank, svd_factors,
                 histVars>>

\* lines 184-190: one trial: the candidate applied, the model built when
\* not ready or forced, then evaluated; the build and the evaluation may fail
fc_Trial ==
  /\ pc = "fc_loop" /\ fn = "config" /\ queue # <<>>
  /\ LET prms == Head(queue)
         param_config == params_to_dict(Tuple(names), Tuple(prms))
         configured == set_config(model, param_config, TRUE)
         rebuild == ~configured.ready \/ force_build
         built == IF rebuild THEN Build(configured) ELSE configured
     IN \/ /\ rebuild
           /\ model' = configured
           /\ trial_exc' = "BuildError"
           /\ UNCHANGED <<res, evaluated, builds>>
        \/ /\ builds' = IF rebuild THEN builds + 1 ELSE builds
           /\ evaluated' = Append(evaluated, prms)
           /\ \/ \E score \in Scores :
                   /\ res' = DictSet(res, prms, score)
                   /\ model' = built
                   /\ trial_exc' = trial_exc
              \/ /\ model' = built
                 /\ trial_exc' = "EvalError"
                 /\ res' = res
  /\ queue' = Tail(queue)
  /\ pc' = "fc_finally"
  /\ UNCHANGED <<exc, ret, gridVars, fn, argVars, model_verbose, svd_rank,
                 svd_factors, pre, evalVars, loop_factors, disturbed, assigned, resets>>

\* a reset that is applied only after a trial that did not fail
ResetApplied_OnSuccessOnly(failed) ==
  reset_config \in {"dict", "callable", "failing_callable"} /\ ~failed

\* lines 193-197: reset_config is applied when it is a dict or a callable,
\* whether the trial failed or not
ResetApplied(failed) ==
  reset_config \in {"dict", "callable", "failing_callable"}

\* lines 195, 197: the model after the reset
AfterReset(m) ==
  CASE reset_config = "dict" -> set_config(m, ResetDict, TRUE)
    [] reset_config = "callable" -> [m EXCEPT !.attrs = DefaultAttrs]
    [] OTHER -> m

\* lines 197-199: what the reset itself raises
ResetFailure ==
  CASE reset_config = "unsupported" -> "NotImplementedError"
    [] reset_config = "failing_callable" -> "ResetError"
    [] OTHER -> "none"

\* an exception raised inside a finally clause replaces the one that was
\* propagating
Propagated(failure, in_finally) ==
  IF in_finally # "none" THEN in_finally ELSE failure

\* lines 192-199: the finally clause of a trial, then the next candidate or
\* the failure going on to the caller
fc_Finally ==
  /\ pc = "fc_finally" /\ fn = "config"
  /\ IF ResetApplied(trial_exc # "none")
     THEN model' = AfterReset(model) /\ resets' = resets + 1
     ELSE UNCHANGED <<model, resets>>
  /\ IF Propagated(trial_exc, ResetFailure) # "none"
     THEN pc' = "raised" /\ exc' = Propagated(trial_exc, ResetFailure)
     ELSE pc' = "fc_loop" /\ exc' = exc
  /\ UNCHANGED <<ret, gridVars, fn, argVars, model_verbose, svd_rank,
                 svd_factors, queue, res, pre, evalVars, loop_factors, trial_exc,
                 disturbed, evaluated, assigned, builds>>

\* lines 201-215: verbosity put back, the series of the results, the best
\* tuple turned into a config (idxmax of an empty series raises)
fc_Finish ==
  /\ pc = "fc_loop" /\ fn = "config" /\ queue = <<>>
  /\ model' = [model EXCEPT !.verbose = model_verbose]
  /\ IF res = <<>>
     THEN pc' = "raised" /\ exc' = "ValueError" /\ ret' = ret
     ELSE /\ pc' = "returned" /\ exc' = exc
          /\ \E return_scores \in BOOLEAN :
               ret' = IF return_scores
                      THEN <<params_to_dict(Tuple(names), Tuple(IdxMax(res))),
                             res>>
                      ELSE <<params_to_dict(Tuple(names), Tuple(IdxMax(res)))>>
  /\ UNCHANGED <<gridVars, fn, argVars, model_verbose, svd_rank, svd_factors,
                 queue, res, histVars>>

NextConfig ==
  \/ fc_Setup
  \/ fc_Trial
  \/ fc_Finally
  \/ fc_Finish

SpecConfig == InitConfig /\ [][NextConfig]_vars

\* ----------------------------------------------------------- params_to_dict
\* longest string and longest tuple handed to params_to_dict
MaxChars == 2

Chars == {"a", "b"}
Strings == UNION {[1..k -> Chars] : k \in 0..MaxChars}
\* param_names: one name, or a tuple of one-letter names
PairingNames ==
  {Str(c) : c \in Strings \ {<<>>}} \cup
  {Tuple([i \in DOMAIN c |-> Str(<<c[i]>>)]) : c \in Strings \ {<<>>}}
\* a candidate: a number, a string, or a tuple of numbers
PairingValues ==
  {Num(i) : i \in 1..MaxVal} \cup {Str(c) : c \in Strings} \cup
  {Tuple([i \in DOMAIN c |-> Num(IF c[i] = "a" THEN 1 ELSE 2)]) : c \in Strings}

\* params_to_dict(names, params) about to be called, as at lines 185 and 206
InitPairing ==
  /\ fn = "params_to_dict" /\ pc = "pd_start" /\ exc = "none" /\ ret = <<>>
  /\ GridIdle
  /\ names \in PairingNames
  /\ \E v \in PairingValues : queue = <<v>>
  /\ model = [rank |-> 0, verbose |-> FALSE, ready |-> FALSE,
              factors |-> NoFactors(0), shared |-> FALSE, recs |-> "None",
              attrs |-> DefaultAttrs]
  /\ ranks = <<>> /\ tucker_ranks = <<>> /\ param_grid = <<>>
  /\ config = <<>> /\ verbose = FALSE /\ protect_factors = FALSE
  /\ same_space = FALSE /\ force_build = FALSE /\ reset_config = "None"
  /\ model_verbose = FALSE /\ svd_rank = 0 /\ svd_factors = NoFactors(0)
  /\ res = <<>>
  /\ HistInit
  /\ deterministic = FALSE

\* lines 163-167: the mapping is returned
pd_Return ==
  /\ pc = "pd_start" /\ fn = "params_to_dict"
  /\ ret' = <<params_to_dict(names, Head(queue))>>
  /\ pc' = "returned"
  /\ UNCHANGED <<exc, gridVars, optVars>>

NextPairing == pd_Return

SpecPairing == InitPairing /\ [][NextPairing]_vars

\* ------------------------------------------------------ the three optimizers
Init == InitSvd \/ InitTucker \/ InitConfig
Next == NextSvd \/ NextTucker \/ NextConfig
Spec == Init /\ [][Next]_vars

\* ------------------------------------------------- claims about random_grid
\* the number of distinct tuples of the Cartesian product of the candidates
ProductSize == Cardinality(ProductOf(param_values(params)))
BudgetOrFull == Min(IF budget > 0 THEN budget ELSE ProductSize, ProductSize)

\* C7: when random_grid returns without interruption from an empty
\* previously-sampled set, len(result) plus the number of distinct excluded
\* tuples drawn is min(budget or full_product_size, full_product_size), and
\* without an exclusion predicate len(result) is that minimum
C7_BudgetAccounting ==
  (pc = "returned" /\ ~interrupted /\ grid_cache = {}) =>
    /\ Cardinality(ret[1]) + Cardinality(skipped) = BudgetOrFull
    /\ skip_config = "none" => Cardinality(ret[1]) = BudgetOrFull
C7_Witness ==
  /\ pc = "returned" /\ ~interrupted /\ grid_cache = {}
  /\ Cardinality(skipped) > 0 /\ Cardinality(ret[1]) > 1

\* C8 as stated: whatever previously-sampled set is passed in, no returned
\* tuple is one the exclusion predicate rejects
C8_NoExcludedReturned ==
  pc = "returned" => \A t \in ret[1] : ~SkipConfig(skip_config, t)
\* C8 amended: no returned tuple outside the previously-sampled set is one
\* the exclusion predicate rejects
C8_NoExcludedAdded ==
  pc = "returned" =>
    \A t \in ret[1] \ grid_cache : ~SkipConfig(skip_config, t)
C8_Witness ==
  /\ pc = "returned" /\ skip_config = "first_is_1"
  /\ skipped # {} /\ ret[1] \ grid_cache # {}

\* C9: with budget 0, no exclusion predicate and no interruption, random_grid
\* eventually returns, and its result is the whole Cartesian product
C9_FullEnumerationReturns ==
  (pc = "rg_start" /\ budget = 0 /\ skip_config = "none") ~>
    \/ interrupted
    \/ /\ pc = "returned"
       /\ ret[1] = ProductOf(param_values(params))

\* C10: an interruption delivered inside the sampling loop makes random_grid
\* return, not fail: the previously-sampled tuples and every tuple added so
\* far, with the parameter names
C10_InterruptReturnsPartial ==
  interrupted =>
    /\ pc = "returned" /\ exc = "none"
    /\ ret = <<grid, [i \in 1..Len(params) |-> params[i].name]>>
    /\ grid_cache \subseteq ret[1]
    /\ ret[1] \subseteq grid_cache \cup ProductOf(param_values(params))
C10_Witness ==
  /\ interrupted /\ pc = "returned"
  /\ Cardinality(ret[1]) > Cardinality(grid_cache)
  /\ Cardinality(ret[1]) + Cardinality(skipped) < n
  /\ level_choice # <<>>
\* ----------------------------------------- claims about find_optimal_svd_rank
\* the call left its candidate loop: it returned, or the evaluator raised
SvdLoopExit ==
  fn = "svd" /\ (pc = "returned" \/ (pc = "raised" /\ exc = "EvalError"))

\* C1 as stated: after find_optimal_svd_rank exits with factor protection,
\* by return or by the evaluator raising, the model's rank and factors are
\* those it had immediately before the call
C1_PreCallStateRestored ==
  (SvdLoopExit /\ protect_factors) =>
    /\ model.rank = pre.rank
    /\ model.factors = pre.factors
\* C1 amended: after such an exit the rank is max(max(ranks), pre-call rank)
\* and the factors are those the model had when the candidate loop began;
\* they are the pre-call rank and factors when the model was already built
\* and its pre-call rank was at least every candidate
C1_SetupStateRestored ==
  (SvdLoopExit /\ protect_factors) =>
    /\ model.rank = Max(MaxOf(ranks), pre.rank)
    /\ model.factors = loop_factors
    /\ (pre.ready /\ pre.rank >= MaxOf(ranks)) =>
         (model.rank = pre.rank /\ model.factors = pre.factors)
C1_Witness ==
  /\ SvdLoopExit /\ protect_factors /\ pc = "raised"
  /\ pre.ready /\ pre.rank >= MaxOf(ranks)
  /\ Len(evaluated) = 2 /\ evaluated[2] < pre.rank
  /\ model.factors = pre.factors
\* ------------------------------------- claims about find_optimal_tucker_ranks
\* the call is between two trials, or left its loop
TuckerBetweenTrials ==
  /\ fn = "tucker"
  /\ \/ pc \in {"tk_loop", "returned"}
     \/ pc = "raised" /\ exc \in {"EvalError", "ValueError"}

\* C3: after every trial, returned or raised, the model's rank is the
\* per-mode maximum triple and its factors are the snapshot taken at setup,
\* so every trial starts from that snapshot, whatever entries of the
\* factors earlier trials replaced
C3_EachTrialRestores ==
  TuckerBetweenTrials =>
    /\ model.rank = PerModeMax(tucker_ranks)
    /\ model.factors = loop_factors
C3_Witness ==
  /\ fn = "tucker" /\ pc = "tk_loop" /\ disturbed
  /\ Len(evaluated) >= 1 /\ queue # <<>>
  /\ ~(IsOtherSpace(Head(queue)) \/ IsPruned(Head(queue)))

\* the dominance rule and the same-space rule of a triple
Dominates(t) ==
  t[1] * t[2] >= t[3] /\ t[1] * t[3] >= t[2] /\ t[2] * t[3] >= t[1]
SameSpaceOk(t) == same_space => t[1] = t[2]

\* C4 as stated: every key of the score series satisfies the dominance rule
\* and, under same_space, r1 = r2, and no triple violating either rule is
\* ever assigned to the model or evaluated
C4_NoInvalidTripleAssigned ==
  fn = "tucker" =>
    /\ \A i \in DOMAIN res : Dominates(res[i][1]) /\ SameSpaceOk(res[i][1])
    /\ \A i \in DOMAIN evaluated :
         Dominates(evaluated[i]) /\ SameSpaceOk(evaluated[i])
    /\ \A t \in assigned : Dominates(t) /\ SameSpaceOk(t)
\* C4 amended: every key of the score series and every evaluated triple
\* satisfies both rules, and the only triple assigned to the model that may
\* violate them is the per-mode maximum triple of setup and restore
C4_NoInvalidTripleTried ==
  fn = "tucker" =>
    /\ \A i \in DOMAIN res : Dominates(res[i][1]) /\ SameSpaceOk(res[i][1])
    /\ \A i \in DOMAIN evaluated :
         Dominates(evaluated[i]) /\ SameSpaceOk(evaluated[i])
    /\ \A t \in assigned \ {PerModeMax(tucker_ranks)} :
         Dominates(t) /\ SameSpaceOk(t)
    /\ model.rank # PerModeMax(tucker_ranks) =>
         (pc = "tk_start" \/ (Dominates(model.rank) /\ SameSpaceOk(model.rank)))
C4_Witness ==
  /\ fn = "tucker" /\ pc = "returned" /\ same_space
  /\ Len(res) >= 2
  /\ \E k \in DOMAIN NestedProduct(tucker_ranks) :
       ~Dominates(NestedProduct(tucker_ranks)[k])
  /\ \E k \in DOMAIN NestedProduct(tucker_ranks) :
       ~SameSpaceOk(NestedProduct(tucker_ranks)[k])
\* ------------------------------------------------ claims about the optimizers
\* the call is over: it returned or raised
Exited == pc \in {"returned", "raised"}

\* C2: in each of the three optimizers the model's verbosity after the call
\* is its pre-call value on every exit path: return, a failing build, a
\* failing evaluation
C2_VerbosityRestored ==
  (fn \in {"svd", "tucker", "config"} /\ Exited) =>
    model.verbose = pre.verbose

\* trials of find_optimal_config begun so far
TrialsBegun == Len(param_grid) - Len(queue)

\* C5: with a reset_config that is a mapping or a callable, the reset is
\* applied exactly once per trial of find_optimal_config, after the trial's
\* configure/build/evaluate step and before the next trial, also for the
\* trial whose build or evaluation raises
C5_ResetOncePerTrial ==
  (fn = "config" /\ reset_config \in {"dict", "callable", "failing_callable"}) =>
    /\ pc = "fc_start" => resets = 0
    /\ pc = "fc_finally" => resets = TrialsBegun - 1
    /\ pc \in {"fc_loop", "returned", "raised"} => resets = TrialsBegun
C5_Witness ==
  /\ fn = "config" /\ reset_config = "callable"
  /\ pc = "raised" /\ exc = "EvalError"
  /\ resets = 2 /\ Len(evaluated) = 2

\* C6: when a trial's build or evaluation raises inside an optimizer, the
\* exception that reaches the caller is that failure, whatever reset_config
\* is
C6_OriginalFailureReachesCaller ==
  (fn \in {"svd", "tucker", "config"} /\ pc = "raised" /\ trial_exc # "none") =>
    exc = trial_exc

\* ------------------------- claims about find_optimal_svd_rank, called twice
\* the second of two calls returned
SecondCallReturned == fn = "svd" /\ pc = "returned" /\ first # <<>>

\* C11 as stated: a second call of find_optimal_svd_rank on the same model
\* with the same arguments, build and evaluation being deterministic,
\* returns the best rank and the score series of the first call, whatever
\* the model's rank and built state were before the first call
C11_SecondCallSameResult ==
  SecondCallReturned => (ret[1] = first[1] /\ res = first[2])
\* C11 amended: with factor protection enabled the second call does not
\* fail, and it returns the best rank and the score series of the first call
C11_ProtectedSecondCallSameResult ==
  (fn = "svd" /\ first # <<>> /\ protect_factors) =>
    /\ pc # "raised"
    /\ pc = "returned" => (ret[1] = first[1] /\ res = first[2])
C11_Witness ==
  /\ SecondCallReturned /\ protect_factors
  /\ Len(res) = 2 /\ res[1][2] # res[2][2]
  /\ disturbed /\ builds = 0 /\ pre.rank > MaxOf(ranks)

\* ------------------------------------------ claims about find_optimal_config
\* find_optimal_config returned
ConfigReturned == fn = "config" /\ pc = "returned"

\* C12: when find_optimal_config returns, the keys of the returned mapping
\* are exactly param_names, its values are position by position the
\* components of an attempted tuple whose recorded score is maximal among
\* the attempted tuples, and the score series has exactly one entry per
\* distinct attempted tuple
C12_BestConfigIsMaximalTuple ==
  ConfigReturned =>
    /\ DictKeys(ret[1]) = names
    /\ \E i \in DOMAIN res :
         /\ res[i][1] \in Range(evaluated)
         /\ \A j \in DOMAIN names : ret[1][j] = <<names[j], res[i][1][j]>>
         /\ \A k \in DOMAIN res : res[k][2] <= res[i][2]
    /\ {res[i][1] : i \in DOMAIN res} = Range(evaluated)
    /\ Len(res) = Cardinality(Range(evaluated))
    /\ Range(evaluated) = Range(param_grid)
    /\ Len(ret) = 2 => ret[2] = res
C12_Witness ==
  /\ ConfigReturned /\ Len(names) = 2
  /\ Len(evaluated) = 2 /\ Len(res) = 2
  /\ res[2][2] > res[1][2]
  /\ ret[1] = <<<<"a", "nan">>, <<"b", "y">>>>

\* C13: with a reset_config that is neither None, a mapping nor a callable,
\* find_optimal_config fails with NotImplementedError for every param_grid,
\* the empty one included, and before any candidate is applied to the
\* model, built or evaluated
C13_UnsupportedResetRejectedAtOnce ==
  (fn = "config" /\ reset_config = "unsupported") =>
    /\ pc # "fc_start" => TrialsBegun = 0
    /\ evaluated = <<>> /\ builds = 0
    /\ Exited => (pc = "raised" /\ exc = "NotImplementedError")

\* ------------------------ claims about the teardown of find_optimal_svd_rank
\* the rank computed at setup, line 89
SetupRank == Max(MaxOf(ranks), pre.rank)

\* C14 as stated: on every exit from the candidate loop the model's rank is
\* back at max(max(ranks), pre-call rank), and with factor protection the
\* factors are back at the snapshot taken after the build
C14_RankAlwaysRestored ==
  SvdLoopExit =>
    /\ model.rank = SetupRank
    /\ protect_factors => model.factors = loop_factors
\* C14 amended: with factor protection the rank is back at
\* max(max(ranks), pre-call rank) and the factors at the snapshot taken
\* after the build; without it the teardown touches neither: the rank stays
\* the last candidate assigned and the factors stay cut down to that rank
C14_RestoredOnlyWhenProtected ==
  SvdLoopExit =>
    IF protect_factors
    THEN /\ model.rank = SetupRank
         /\ model.factors = svd_factors
         /\ svd_factors = loop_factors
         /\ \A k \in FactorKeys : model.factors[k].w = SetupRank
    ELSE /\ model.rank = evaluated[Len(evaluated)]
         /\ \A k \in FactorKeys : model.factors[k].w = evaluated[Len(evaluated)]
C14_Witness ==
  /\ SvdLoopExit /\ ~protect_factors /\ pc = "raised"
  /\ Len(evaluated) = 2 /\ model.rank < SetupRank
  /\ model.factors # loop_factors

\* ------------------- claims about the candidate loop of find_optimal_svd_rank
\* how many times v occurs in the sequence q
Occurrences(q, v) == Cardinality({i \in DOMAIN q : q[i] = v})
\* the model had to be built at setup
BuiltAtSetup == ~(pre.ready /\ pre.rank >= MaxOf(ranks))

\* C15: the candidate ranks are assigned and evaluated in non-increasing
\* order whatever the order of the input list, each occurrence exactly once
\* when the loop completes, build is not called between two evaluations
\* (the only build is the one of setup), and every rank assigned is at most
\* the rank set at setup
C15_DescendingNoRebuild ==
  fn = "svd" =>
    /\ \A i \in 1..(Len(evaluated) - 1) : evaluated[i] >= evaluated[i + 1]
    /\ \A v \in Range(evaluated) :
         Occurrences(evaluated, v) <= Occurrences(ranks, v)
    /\ pc \in {"svd_select", "returned"} => Len(evaluated) = Len(ranks)
    /\ pc \in {"svd_loop", "svd_finally", "svd_select", "returned"} =>
         builds = IF BuiltAtSetup THEN 1 ELSE 0
    /\ Len(evaluated) > 0 => (model.ready /\ builds <= 1)
    /\ \A r \in assigned : r <= SetupRank
    /\ \A i \in DOMAIN evaluated : evaluated[i] \in assigned
C15_Witness ==
  /\ fn = "svd" /\ pc = "returned"
  /\ Len(ranks) = 2 /\ ranks[1] < ranks[2]
  /\ evaluated = <<ranks[2], ranks[1]>>
  /\ builds = 1 /\ pre.rank > ranks[2]

\* ----------------------- claims about the result of find_optimal_svd_rank
\* C16: when find_optimal_svd_rank returns, the returned rank is a candidate
\* whose score is at least the score of every candidate, and among the
\* candidates that share the maximal score it is the first of the series,
\* which with the descending iteration is the largest of them
C16_BestRankIsFirstMaximal ==
  (fn = "svd" /\ pc = "returned") =>
    /\ ret[1] \in Range(ranks)
    /\ HasKey(res, ret[1])
    /\ {res[i][1] : i \in DOMAIN res} = Range(ranks)
    /\ \A i \in DOMAIN res :
         /\ res[i][2] <= DictGet(res, ret[1])
         /\ res[i][2] = DictGet(res, ret[1]) => res[i][1] <= ret[1]
    /\ \A i \in 1..(Len(res) - 1) : res[i][1] > res[i + 1][1]
C16_Witness ==
  /\ fn = "svd" /\ pc = "returned"
  /\ Len(res) = 2 /\ res[1][2] = res[2][2]
  /\ ranks[1] < ranks[2] /\ ret[1] = ranks[2]

\* ---------------- claims about the candidate loop of find_optimal_tucker_ranks
\* the triples of the Cartesian product of the three candidate sequences
TuckerProduct ==
  {<<r1, r2, r3>> : r1 \in Range(tucker_ranks[1]), r2 \in Range(tucker_ranks[2]),
                    r3 \in Range(tucker_ranks[3])}
\* where a triple stands in the nested loops: the positions of its
\* components in their candidate sequences
LoopPosition(t) ==
  [i \in 1..3 |-> CHOOSE k \in DOMAIN tucker_ranks[i] : tucker_ranks[i][k] = t[i]]

\* C17: when find_optimal_tucker_ranks returns, the keys of the score series
\* are exactly the triples of the Cartesian product that pass the dominance
\* rule (and have r1 = r2 under same_space); each of them was evaluated, in
\* nested order with mode 1 outermost and mode 3 innermost
C17_AllValidTriplesInNestedOrder ==
  (fn = "tucker" /\ pc = "returned") =>
    /\ {res[i][1] : i \in DOMAIN res} =
         {t \in TuckerProduct : Dominates(t) /\ SameSpaceOk(t)}
    /\ Len(ret) = 2 =>
         {ret[2][i][1] : i \in DOMAIN ret[2]} =
           {t \in TuckerProduct : Dominates(t) /\ SameSpaceOk(t)}
    /\ Range(evaluated) = {res[i][1] : i \in DOMAIN res}
    /\ \A i \in 1..(Len(evaluated) - 1) :
         LexLess(LoopPosition(evaluated[i]), LoopPosition(evaluated[i + 1]))
C17_Witness ==
  /\ fn = "tucker" /\ pc = "returned" /\ Len(ret) = 2
  /\ Len(evaluated) = 3
  /\ LexLess(evaluated[3], evaluated[2])
  /\ \E t \in TuckerProduct : ~Dominates(t)

\* ------------------------------------------------ claims about params_to_dict
\* C18: params_to_dict pairs a single name (not a tuple of names) with the
\* candidate as a whole, giving {name: value}, whatever the candidate is, a
\* string or a tuple included, and zips element-wise only when the names
\* are a tuple of names
C18_SingleNamePairsWholeValue ==
  (fn = "params_to_dict" /\ pc = "returned" /\ names.kind # "tuple") =>
    ret[1] = <<<<names, Head(queue)>>>>

\* ------------------------------ claims about the sampling loop of random_grid
\* a call the claim is about, once it is past its argument checks
SamplingDistinct ==
  /\ fn = "random_grid" /\ DistinctValues /\ budget >= 0
  /\ pc \in {"rg_test", "rg_draw", "rg_skip", "returned"}
CombinedSize == Cardinality(grid) + Cardinality(skipped)
\* the states of the sampling loop keep within the effective budget
WithinBudget ==
  /\ skipped \subseteq ProductOf(param_values(params))
  /\ n <= ProductSize
  /\ pc \in {"rg_draw", "rg_skip"} => CombinedSize < n
  /\ (pc = "returned" /\ ~interrupted /\ Cardinality(grid_cache) <= n) =>
       CombinedSize = n

\* C19 as stated: on a grid of pairwise distinct values, for every budget
\* >= 0 and every exclusion predicate, the call returns under fair draws,
\* and the result set and the skip set are disjoint sets of product tuples
\* whose combined size grows until it reaches the effective budget, itself
\* at most the product size
C19_DisjointUntilBudget ==
  /\ [](SamplingDistinct =>
         /\ grid \cap skipped = {}
         /\ grid \subseteq ProductOf(param_values(params))
         /\ WithinBudget)
  /\ [][SamplingDistinct => CombinedSize' >= CombinedSize]_vars
  /\ (DistinctValues /\ budget >= 0 /\ pc = "rg_start") ~> (pc = "returned")
\* C19 amended: the same, the disjoint sets being the skip set and the
\* tuples the call added to the previously-sampled ones; the result set
\* and the skip set are disjoint when the predicate rejects no
\* previously-sampled tuple
C19_AddedDisjointUntilBudget ==
  /\ [](SamplingDistinct =>
         /\ (grid \ grid_cache) \cap skipped = {}
         /\ (\A t \in grid_cache : ~SkipConfig(skip_config, t)) =>
              grid \cap skipped = {}
         /\ grid \ grid_cache \subseteq ProductOf(param_values(params))
         /\ WithinBudget)
  /\ [][SamplingDistinct => CombinedSize' >= CombinedSize]_vars
  /\ (DistinctValues /\ budget >= 0 /\ pc = "rg_start") ~> (pc = "returned")
C19_Witness ==
  /\ SamplingDistinct /\ pc = "returned" /\ ~interrupted
  /\ skip_config = "all" /\ grid_cache = {} /\ budget = 0
  /\ ProductSize = 4 /\ skipped = ProductOf(param_values(params))

\* ------------------ claims about the previously-sampled set of random_grid
\* C20: random_grid never changes the previously-sampled collection passed
\* to it, the returned set contains that collection, and its tuples count
\* toward the budget: when the collection holds at least the effective
\* budget of tuples no draw is made and the result is the collection
C20_CacheKeptAndCounted ==
  /\ [][grid_cache' = grid_cache]_vars
  /\ [](fn = "random_grid" =>
         /\ pc \in {"rg_test", "rg_draw", "rg_skip"} => grid_cache \subseteq grid
         /\ pc = "returned" => grid_cache \subseteq ret[1]
         /\ (pc = "returned" /\ ~interrupted /\ Cardinality(grid_cache) <= n) =>
              Cardinality(ret[1]) + Cardinality(skipped) = n
         /\ (pc \in {"rg_test", "rg_draw", "rg_skip", "returned"}
               /\ Cardinality(grid_cache) >= EffectiveN(budget, params)) =>
              /\ pc \in {"rg_test", "returned"}
              /\ level_choice = <<>> /\ skipped = {} /\ grid = grid_cache
              /\ pc = "returned" => ret[1] = grid_cache)
C20_Witness ==
  /\ fn = "random_grid" /\ pc = "returned" /\ ~interrupted
  /\ grid_cache # {} /\ Cardinality(grid_cache) >= n
  /\ ret[1] = grid_cache /\ ProductSize > 1

====
